---- MODULE Spec2Model ----
(***************************************************************************)
(* A model of src/main.py: the WLED device state store (class WLED), the   *)
(* value validators (TypeVerificationMixin), the typed property views      *)
(* (NightlightProperty, SegmentListProperty, SegmentItem) and the facade   *)
(* (PropertyWLED).                                                         *)
(*                                                                         *)
(* JSON values are tagged records, so that documents of mixed content can  *)
(* be compared: a Python dict is a function over its string keys, a Python *)
(* list a sequence.  self.state and self.info hold the dict itself.        *)
(***************************************************************************)
EXTENDS Integers, Sequences, FiniteSets, TLC

JBool(b) == [t |-> "bool", b |-> b]
JInt(n)  == [t |-> "int", n |-> n]
JStr(s)  == [t |-> "str", s |-> s]
JObj(o)  == [t |-> "obj", o |-> o]
JList(l) == [t |-> "list", l |-> l]

EmptyDoc == [k \in {} |-> JInt(0)]

(***************************************************************************)
(* Bounds of the model.                                                    *)
(***************************************************************************)
\* operations performed on one session after its construction
MaxSteps == 2
\* segment ids tried are -MaxIdx .. MaxIdx
MaxIdx == 2

(***************************************************************************)
(* The documents the device serves (inputs).  The shapes follow the WLED   *)
(* JSON API the source references: "nl" is an object, "seg" a list of      *)
(* segment objects, info.leds.maxseg the segment capacity.  Empty          *)
(* documents are included: the session must cope with them (loaded).       *)
(***************************************************************************)
Segment(a, b) == JObj([start |-> JInt(a), stop |-> JInt(b)])

StateA ==
    [on |-> JBool(TRUE), bri |-> JInt(128), transition |-> JInt(7),
     nl |-> JObj([on |-> JBool(FALSE), dur |-> JInt(60), mode |-> JInt(1),
                  tbri |-> JInt(0), rem |-> JInt(-1)]),
     seg |-> JList(<<Segment(0, 30), Segment(30, 60)>>)]

StateB ==
    [on |-> JBool(FALSE), bri |-> JInt(10),
     seg |-> JList(<<Segment(0, 60)>>)]

InfoOf(maxseg) ==
    [ver |-> JStr("0.13"),
     leds |-> JObj([count |-> JInt(60), maxseg |-> JInt(maxseg)])]

Effects == <<"Solid", "Blink">>
Palettes == <<"Default">>

\* what the four endpoints /json/state, /json/info, /json/eff, /json/pal of a
\* device serve: two full devices, and one with each endpoint empty in turn
Devices ==
    {<<StateA, InfoOf(2), Effects, Palettes>>,
     <<StateB, InfoOf(1), Effects, Palettes>>,
     <<EmptyDoc, InfoOf(2), Effects, Palettes>>,
     <<StateA, EmptyDoc, Effects, Palettes>>,
     <<StateA, InfoOf(2), <<>>, Palettes>>,
     <<StateA, InfoOf(2), Effects, <<>>>>}

\* what one HTTP exchange can give: the request raises, the body is not JSON,
\* or the body parses to a document
Ok(doc) == [t |-> "ok", body |-> doc]
ConnError == [t |-> "ConnectionError"]
BadJson == [t |-> "JSONDecodeError"]

\* the replies to the four GETs of one pull: those of a device, all but the
\* first `good` of them failing (the fetches after a failing one are not made)
PullReplies(dev, good) ==
    [i \in 1..4 |-> IF i <= good THEN Ok(dev[i]) ELSE ConnError]

\* the replies to a POST of the state
PostReplies == {ConnError, BadJson, Ok(StateB), Ok(EmptyDoc)}

FileNames == {"comp2", "police"}

VARIABLES
    state,      \* WLED.state
    info,       \* WLED.info
    effects,    \* WLED.effects
    palettes,   \* WLED.palettes
    files,      \* ./saved_states/<name>.json: whether it exists, and its text
    saved,      \* history: the StateDocument save_state_file last wrote to each file
    posted,     \* the json= argument of the last post() call, or NoPost
    op,         \* the last operation, its arguments and the exception it raised
    ret,        \* what the last operation returned
    held,       \* the ids of the SegmentItem views the caller holds
    steps

vars == <<state, info, effects, palettes, files, saved, posted, op, ret, held, steps>>

NoFile == [exists |-> FALSE]
NoSave == [t |-> "nosave"]
NoPost == [t |-> "nopost"]
None == [t |-> "None"]

\* dict.update({k: v}) and d[k] = v
update(d, k, v) == [x \in DOMAIN d \cup {k} |-> IF x = k THEN v ELSE d[x]]

Step == steps < MaxSteps /\ steps' = steps + 1

(***************************************************************************)
(* WLED.__init__ sets the four documents empty and calls pull_state(); an  *)
(* exception there leaves no session.  A constructed session therefore     *)
(* holds what the four endpoints of its device served.  The directory      *)
(* ./saved_states holds police.json from an earlier session.               *)
(***************************************************************************)
PoliceDoc == [on |-> JBool(TRUE), bri |-> JInt(255), transition |-> JInt(1)]

(***************************************************************************)
(* json.dumps and json.loads.  The text of a document is its sequence of   *)
(* JSON tokens; loads is a recursive-descent parser of such a sequence.    *)
(* The members of a dict are written in a fixed order of the keys (dicts   *)
(* compare regardless of order).                                           *)
(***************************************************************************)
P(s) == [k |-> "p", s |-> s]
TLit(s) == [k |-> "lit", s |-> s]
TNum(n) == [k |-> "num", n |-> n]
TStr(s) == [k |-> "str", s |-> s]
IsP(tk, s) == tk.k = "p" /\ tk.s = s

KeyOrder ==
    <<"on", "bri", "transition", "nl", "seg", "v", "rb",
      "dur", "mode", "tbri", "rem", "start", "stop">>

KeysOf(o) == SelectSeq(KeyOrder, LAMBDA k : k \in DOMAIN o)

RECURSIVE dumps(_), dumps_items(_, _), dumps_members(_, _)

dumps_items(l, i) ==
    IF i > Len(l) THEN <<>>
    ELSE dumps(l[i]) \o (IF i < Len(l) THEN <<P(",")>> ELSE <<>>)
            \o dumps_items(l, i + 1)

dumps_members(o, ks) ==
    IF ks = <<>> THEN <<>>
    ELSE <<TStr(Head(ks)), P(":")>> \o dumps(o[Head(ks)])
            \o (IF Len(ks) > 1 THEN <<P(",")>> ELSE <<>>)
            \o dumps_members(o, Tail(ks))

dumps(v) ==
    CASE v.t = "bool" -> <<TLit(IF v.b THEN "true" ELSE "false")>>
      [] v.t = "int" -> <<TNum(v.n)>>
      [] v.t = "str" -> <<TStr(v.s)>>
      [] v.t = "list" -> <<P("[")>> \o dumps_items(v.l, 1) \o <<P("]")>>
      [] v.t = "obj" -> <<P("{")>> \o dumps_members(v.o, KeysOf(v.o)) \o <<P("}")>>

ParseError == [ok |-> FALSE]
Parsed(v, next) == [ok |-> TRUE, val |-> v, next |-> next]

RECURSIVE parse_value(_, _), parse_items(_, _, _), parse_members(_, _, _)

\* at i: an element, or "]" when the list is still empty
parse_items(toks, i, acc) ==
    IF i > Len(toks) THEN ParseError
    ELSE IF Len(acc) = 0 /\ IsP(toks[i], "]") THEN Parsed(JList(acc), i + 1)
    ELSE LET e == parse_value(toks, i)
         IN  IF ~e.ok THEN ParseError
             ELSE IF e.next > Len(toks) THEN ParseError
             ELSE IF IsP(toks[e.next], ",")
                  THEN parse_items(toks, e.next + 1, Append(acc, e.val))
             ELSE IF IsP(toks[e.next], "]")
                  THEN Parsed(JList(Append(acc, e.val)), e.next + 1)
             ELSE ParseError

\* at i: a member "key": value, or "}" when the dict is still empty; a
\* repeated key keeps the last value
parse_members(toks, i, acc) ==
    IF i > Len(toks) THEN ParseError
    ELSE IF DOMAIN acc = {} /\ IsP(toks[i], "}") THEN Parsed(JObj(acc), i + 1)
    ELSE IF toks[i].k # "str" \/ i + 1 > Len(toks) THEN ParseError
    ELSE IF ~IsP(toks[i + 1], ":") THEN ParseError
    ELSE LET e == parse_value(toks, i + 2)
         IN  IF ~e.ok THEN ParseError
             ELSE IF e.next > Len(toks) THEN ParseError
             ELSE IF IsP(toks[e.next], ",")
                  THEN parse_members(toks, e.next + 1, update(acc, toks[i].s, e.val))
             ELSE IF IsP(toks[e.next], "}")
                  THEN Parsed(JObj(update(acc, toks[i].s, e.val)), e.next + 1)
             ELSE ParseError

parse_value(toks, i) ==
    IF i > Len(toks) THEN ParseError
    ELSE CASE toks[i].k = "lit" -> Parsed(JBool(toks[i].s = "true"), i + 1)
           [] toks[i].k = "num" -> Parsed(JInt(toks[i].n), i + 1)
           [] toks[i].k = "str" -> Parsed(JStr(toks[i].s), i + 1)
           [] IsP(toks[i], "[") -> parse_items(toks, i + 1, <<>>)
           [] IsP(toks[i], "{") -> parse_members(toks, i + 1, EmptyDoc)
           [] OTHER -> ParseError

loads(text) ==
    LET r == parse_value(text, 1)
    IN  IF r.ok /\ r.next = Len(text) + 1
        THEN [raised |-> "none", val |-> r.val]
        ELSE [raised |-> "JSONDecodeError"]

Init ==
    /\ \E dev \in Devices :
          /\ state = dev[1]
          /\ info = dev[2]
          /\ effects = dev[3]
          /\ palettes = dev[4]
    /\ files = [n \in FileNames |->
                   IF n = "police"
                   THEN [exists |-> TRUE, text |-> dumps(JObj(PoliceDoc))]
                   ELSE NoFile]
    /\ saved = [n \in FileNames |-> NoSave]
    /\ posted = NoPost
    /\ op = [name |-> "__init__", raised |-> "none"]
    /\ ret = None
    /\ held = {}
    /\ steps = 0

(***************************************************************************)
(* WLED.loaded                                                             *)
(***************************************************************************)
loaded_mut ==
    LET state_valid == Cardinality(DOMAIN state) # 0
        info_valid == Cardinality(DOMAIN info) # 0
        effects_valid == Len(effects) # 0
    IN  state_valid /\ info_valid /\ effects_valid

loaded ==
    LET state_valid == Cardinality(DOMAIN state) # 0
        info_valid == Cardinality(DOMAIN info) # 0
        effects_valid == Len(effects) # 0
        palettes_valid == Len(palettes) # 0
    IN  state_valid /\ info_valid /\ effects_valid /\ palettes_valid

Loaded ==
    /\ Step
    /\ ret' = JBool(loaded)
    /\ op' = [name |-> "loaded", raised |-> "none"]
    /\ UNCHANGED <<state, info, effects, palettes, files, saved, posted, held>>

(***************************************************************************)
(* WLED.get_json: get() raises, or loads(r.text) raises, or the parsed     *)
(* body is returned.                                                       *)
(***************************************************************************)
get_json(reply) ==
    IF reply.t = "ok"
    THEN [raised |-> "none", val |-> reply.body]
    ELSE [raised |-> reply.t]

(***************************************************************************)
(* WLED.pull_state: four fetches in order, each assigned as it arrives; an *)
(* exception of get_json ends the call there.  r is the four replies.      *)
(* Gives the four documents afterwards, the exception raised and the       *)
(* number of the failing fetch (0: none).                                  *)
(***************************************************************************)
pull_state(r) ==
    LET g == [i \in 1..4 |-> get_json(r[i])]
        \* fetch i was made and returned
        ok(i) == \A j \in 1..i : g[j].raised = "none"
        failed == IF ok(4) THEN 0 ELSE CHOOSE i \in 1..4 : ~ok(i) /\ (i = 1 \/ ok(i - 1))
    IN  [state |-> IF ok(1) THEN g[1].val ELSE state,
         info |-> IF ok(2) THEN g[2].val ELSE info,
         effects |-> IF ok(3) THEN g[3].val ELSE effects,
         palettes |-> IF ok(4) THEN g[4].val ELSE palettes,
         raised |-> IF failed = 0 THEN "none" ELSE g[failed].raised,
         failed |-> failed]

Pull ==
    /\ Step
    /\ \E dev \in Devices, good \in 0..4 :
          LET r == pull_state(PullReplies(dev, good))
          IN  /\ state' = r.state
              /\ info' = r.info
              /\ effects' = r.effects
              /\ palettes' = r.palettes
              /\ op' = [name |-> "pull_state", raised |-> r.raised,
                        failed |-> r.failed]
    /\ ret' = None
    /\ UNCHANGED <<files, saved, posted, held>>

(***************************************************************************)
(* WLED.push_state on the document doc: with get_resp the flag "v" is put  *)
(* into the document itself before the POST; post() raises on a            *)
(* connection failure; with get_resp the response text is parsed and       *)
(* becomes the state.  Gives the body posted, the state afterwards and     *)
(* the exception raised.                                                   *)
(***************************************************************************)
push_state_mut(doc, get_resp, reply) ==
    LET body == update(doc, "v", JBool(TRUE))
        parsed == get_json(reply)
        raised == IF reply.t = "ConnectionError" THEN reply.t
                  ELSE IF get_resp THEN parsed.raised
                  ELSE "none"
    IN  [posted |-> body,
         state |-> IF get_resp /\ raised = "none" THEN parsed.val ELSE body,
         raised |-> raised]

push_state(doc, get_resp, reply) ==
    LET body == IF get_resp THEN update(doc, "v", JBool(get_resp)) ELSE doc
        parsed == get_json(reply)
        raised == IF reply.t = "ConnectionError" THEN reply.t
                  ELSE IF get_resp THEN parsed.raised
                  ELSE "none"
    IN  [posted |-> body,
         state |-> IF get_resp /\ raised = "none" THEN parsed.val ELSE body,
         raised |-> raised]

Push ==
    /\ Step
    /\ \E get_resp \in BOOLEAN, reply \in PostReplies :
          LET r == push_state(state, get_resp, reply)
          IN  /\ posted' = r.posted
              /\ state' = r.state
              /\ op' = [name |-> "push_state", get_resp |-> get_resp,
                        reply |-> reply, raised |-> r.raised]
    /\ ret' = None
    /\ UNCHANGED <<info, effects, palettes, files, saved, held>>

(***************************************************************************)
(* PropertyWLED.reboot_wled                                                *)
(***************************************************************************)
reboot_wled_mut(reply) == push_state(update(state, "rb", JBool(TRUE)), FALSE, reply)

reboot_wled(reply) == push_state([rb |-> JBool(TRUE)], FALSE, reply)

Reboot ==
    /\ Step
    /\ \E reply \in PostReplies :
          LET r == reboot_wled(reply)
          IN  /\ posted' = r.posted
              /\ state' = r.state
              /\ op' = [name |-> "reboot_wled", reply |-> reply, raised |-> r.raised]
    /\ ret' = None
    /\ UNCHANGED <<info, effects, palettes, files, saved, held>>

(***************************************************************************)
(* WLED.save_state_file / WLED.load_state_file                             *)
(***************************************************************************)
save_state_file(file_name) ==
    [files EXCEPT ![file_name] = [exists |-> TRUE, text |-> dumps(JObj(state))]]

Save ==
    /\ Step
    /\ \E file_name \in FileNames :
          /\ files' = save_state_file(file_name)
          /\ saved' = [saved EXCEPT ![file_name] = state]
          /\ op' = [name |-> "save_state_file", file_name |-> file_name,
                    raised |-> "none"]
    /\ ret' = None
    /\ UNCHANGED <<state, info, effects, palettes, posted, held>>

\* open() raises when the file is missing; the text of a file is that of a
\* JSON object, whose dict becomes the state
load_state_file_mut(file_name) ==
    IF ~files[file_name].exists THEN [raised |-> "FileNotFoundError", state |-> state]
    ELSE LET r == loads(files[file_name].text)
         IN  IF r.raised # "none" THEN [raised |-> r.raised, state |-> state]
             ELSE [raised |-> "none",
                   state |-> [k \in DOMAIN state \cup DOMAIN r.val.o |->
                                 IF k \in DOMAIN r.val.o THEN r.val.o[k] ELSE state[k]]]

load_state_file(file_name) ==
    IF ~files[file_name].exists THEN [raised |-> "FileNotFoundError", state |-> state]
    ELSE LET r == loads(files[file_name].text)
         IN  IF r.raised # "none" THEN [raised |-> r.raised, state |-> state]
             ELSE [raised |-> "none", state |-> r.val.o]

Load ==
    /\ Step
    /\ \E file_name \in FileNames :
          LET r == load_state_file(file_name)
          IN  /\ state' = r.state
              /\ op' = [name |-> "load_state_file", file_name |-> file_name,
                        raised |-> r.raised]
    /\ ret' = None
    /\ UNCHANGED <<info, effects, palettes, files, saved, posted, held>>

(***************************************************************************)
(* TypeVerificationMixin.  A validator returns [raised, val]: the          *)
(* exception it raises ("none" when it returns) and the value returned.    *)
(* Inputs are tagged Python values; the strings given are not numerals.    *)
(***************************************************************************)
\* bool(val)
PyBool(val) ==
    CASE val.t = "bool" -> val.b
      [] val.t = "int" -> val.n # 0
      [] val.t = "str" -> val.s # ""

\* int(val)
PyInt(val) ==
    CASE val.t = "int" -> [raised |-> "none", val |-> val.n]
      [] val.t = "bool" -> [raised |-> "none", val |-> IF val.b THEN 1 ELSE 0]
      [] val.t = "str" -> [raised |-> "ValueError"]

_verify_bool(val) == [raised |-> "none", val |-> JBool(PyBool(val))]

_verify_int8bit_mut(val) ==
    LET i == PyInt(val)
    IN  IF i.raised # "none" THEN i
        ELSE IF (i.val > 255) \/ (i.val < 0) THEN [raised |-> "ValueError"]
        ELSE [raised |-> "none", val |-> JInt(i.val)]

_verify_int8bit(val) ==
    LET i == PyInt(val)
    IN  IF i.raised # "none" THEN i
        ELSE IF (i.val > 255) \/ (i.val < 1) THEN [raised |-> "ValueError"]
        ELSE [raised |-> "none", val |-> JInt(i.val)]

_verify_range(val, min_val, max_val) ==
    LET i == PyInt(val)
    IN  IF i.raised # "none" THEN i
        ELSE IF (i.val > max_val) \/ (i.val < min_val) THEN [raised |-> "ValueError"]
        ELSE [raised |-> "none", val |-> JInt(i.val)]

BoolInputs == {JBool(TRUE), JBool(FALSE), JInt(0), JStr("x")}

ByteInputs == {JInt(0), JInt(1), JInt(255), JInt(256), JStr("abc")}

(***************************************************************************)
(* container.__setitem__(key, value) on a parsed JSON value: a dict takes  *)
(* a string key; a list takes an index in -len .. len-1 (negative indices  *)
(* count from the end); a number has no __setitem__.  Returns              *)
(* [raised, val], val the container afterwards.                            *)
(***************************************************************************)
ListPos(l, i) == IF i < 0 THEN Len(l) + i + 1 ELSE i + 1

setitem(c, key, value) ==
    CASE c.t = "obj" /\ key.t = "str" ->
            [raised |-> "none", val |-> JObj(update(c.o, key.s, value))]
      [] c.t = "list" /\ key.t = "str" -> [raised |-> "TypeError"]
      [] c.t = "list" /\ key.t = "int" ->
            IF ListPos(c.l, key.n) \in 1..Len(c.l)
            THEN [raised |-> "none",
                  val |-> JList([c.l EXCEPT ![ListPos(c.l, key.n)] = value])]
            ELSE [raised |-> "IndexError"]
      [] c.t \in {"int", "bool", "str"} -> [raised |-> "AttributeError"]

(***************************************************************************)
(* The setter closures of PropertyWLED.__init__:                           *)
(*   lambda k, v: self.state[top].__setitem__(k, v)                        *)
(* and a typed setter built on them: the argument (the validated value)    *)
(* is evaluated before the closure is called.                              *)
(***************************************************************************)
nested_set_mut(doc, top, key, checked) ==
    IF checked.raised # "none" THEN [raised |-> checked.raised, val |-> doc]
    ELSE IF top \notin DOMAIN doc THEN [raised |-> "KeyError", val |-> doc]
    ELSE IF key.t = "str"
         THEN [raised |-> "none", val |-> update(doc, key.s, checked.val)]
    ELSE LET r == setitem(doc[top], key, checked.val)
         IN  IF r.raised # "none" THEN [raised |-> r.raised, val |-> doc]
             ELSE [raised |-> "none", val |-> update(doc, top, r.val)]

nested_set(doc, top, key, checked) ==
    IF checked.raised # "none" THEN [raised |-> checked.raised, val |-> doc]
    ELSE IF top \notin DOMAIN doc THEN [raised |-> "KeyError", val |-> doc]
    ELSE LET r == setitem(doc[top], key, checked.val)
         IN  IF r.raised # "none" THEN [raised |-> r.raised, val |-> doc]
             ELSE [raised |-> "none", val |-> update(doc, top, r.val)]

\* self.state[key] = <validated value>
top_set(doc, key, checked) ==
    IF checked.raised # "none" THEN [raised |-> checked.raised, val |-> doc]
    ELSE [raised |-> "none", val |-> update(doc, key, checked.val)]

\* a setter step: the outcome r of the write, on the field top[.key]
Setter(name, top, key, input, r) ==
    /\ Step
    /\ state' = r.val
    /\ op' = [name |-> name, top |-> top, key |-> key,
              input |-> input, raised |-> r.raised]
    /\ ret' = None
    /\ UNCHANGED <<info, effects, palettes, files, saved, posted, held>>

(***************************************************************************)
(* PropertyWLED.on / brightness / transition setters                       *)
(***************************************************************************)
SetOn ==
    \E value \in BoolInputs :
        Setter("on", "on", None, value, top_set(state, "on", _verify_bool(value)))

SetBrightness ==
    \E value \in ByteInputs :
        Setter("brightness", "bri", None, value,
               top_set(state, "bri", _verify_int8bit(value)))

SetTransition ==
    \E value \in ByteInputs :
        Setter("transition", "transition", None, value,
               top_set(state, "transition", _verify_int8bit(value)))

(***************************************************************************)
(* NightlightProperty                                                      *)
(***************************************************************************)
MODE_INSTANT == "instant"
MODE_FADE == "fade"
MODE_COLOR_FADE == "color fade"
MODE_SUNRISE == "sunrise"

_MODE_MAP ==
    (MODE_INSTANT :> 0) @@ (MODE_FADE :> 1) @@ (MODE_COLOR_FADE :> 2)
        @@ (MODE_SUNRISE :> 3)

\* the mode setter's conversion: _MODE_MAP[value], a KeyError passed over,
\* then int(value) and _verify_range(value, 0, 3)
mode_value_mut(value) ==
    LET mapped == IF value.t = "str" /\ value.s \in DOMAIN _MODE_MAP
                  THEN JInt(_MODE_MAP[value.s])
                  ELSE value
        i == PyInt(mapped)
    IN  IF i.raised # "none" THEN i ELSE _verify_range(JInt(i.val), 0, 4)

mode_value(value) ==
    LET mapped == IF value.t = "str" /\ value.s \in DOMAIN _MODE_MAP
                  THEN JInt(_MODE_MAP[value.s])
                  ELSE value
        i == PyInt(mapped)
    IN  IF i.raised # "none" THEN i ELSE _verify_range(JInt(i.val), 0, 3)

ModeInputs ==
    {JStr(MODE_INSTANT), JStr(MODE_FADE), JStr(MODE_COLOR_FADE), JStr(MODE_SUNRISE),
     JStr("bogus"), JInt(-1), JInt(0), JInt(2), JInt(4)}

SetNightlightOn ==
    \E value \in BoolInputs :
        Setter("nightlight.on", "nl", JStr("on"), value,
               nested_set(state, "nl", JStr("on"), _verify_bool(value)))

SetNightlightDuration ==
    \E value \in ByteInputs :
        Setter("nightlight.duration_minutes", "nl", JStr("dur"), value,
               nested_set(state, "nl", JStr("dur"), _verify_int8bit(value)))

SetNightlightMode ==
    \E value \in ModeInputs :
        Setter("nightlight.mode", "nl", JStr("mode"), value,
               nested_set(state, "nl", JStr("mode"), mode_value(value)))

SetNightlightTarget ==
    \E value \in ByteInputs :
        Setter("nightlight.target_brightness", "nl", JStr("tbri"), value,
               nested_set(state, "nl", JStr("tbri"), _verify_int8bit(value)))

(***************************************************************************)
(* SegmentListProperty.__getitem__: info["leds"]["maxseg"] is read at each *)
(* call (a KeyError when the info document has no "leds"); a SegmentItem   *)
(* bound to the id is returned when item < max_seg, and None otherwise.    *)
(***************************************************************************)
SegmentItem(seg_id) == [t |-> "SegmentItem", seg_id |-> seg_id]

getitem(item) ==
    IF "leds" \notin DOMAIN info THEN [raised |-> "KeyError", val |-> None]
    ELSE LET max_seg == info["leds"].o["maxseg"].n
         IN  IF item < max_seg
             THEN [raised |-> "none", val |-> SegmentItem(item)]
             ELSE [raised |-> "none", val |-> None]

GetItem ==
    /\ Step
    /\ \E item \in -MaxIdx..MaxIdx :
          LET r == getitem(item)
          IN  /\ ret' = r.val
              /\ held' = IF r.val = None THEN held ELSE held \cup {item}
              /\ op' = [name |-> "segment.__getitem__", item |-> item,
                        raised |-> r.raised]
    /\ UNCHANGED <<state, info, effects, palettes, files, saved, posted>>

(***************************************************************************)
(* SegmentItem.start setter, on a view the caller holds, and               *)
(* SegmentListProperty.duration_minutes setter                             *)
(***************************************************************************)
SetSegmentStart ==
    \E seg_id \in held, value \in ByteInputs :
        Setter("segment[].start", "seg", JInt(seg_id), value,
               nested_set(state, "seg", JInt(seg_id), _verify_int8bit(value)))

SetSegmentDuration ==
    \E value \in ByteInputs :
        Setter("segment.duration_minutes", "seg", JStr("dur"), value,
               nested_set(state, "seg", JStr("dur"), _verify_int8bit(value)))

Next ==
    \/ Loaded
    \/ Pull
    \/ Push
    \/ Reboot
    \/ Save
    \/ Load
    \/ GetItem
    \/ SetOn
    \/ SetBrightness
    \/ SetTransition
    \/ SetNightlightOn
    \/ SetNightlightDuration
    \/ SetNightlightMode
    \/ SetNightlightTarget
    \/ SetSegmentStart
    \/ SetSegmentDuration

Spec == Init /\ [][Next]_vars

(***************************************************************************)
(* The claims.  op' describes the operation a step performs, so an action  *)
(* property  [][op'.name = ... => ...]_vars  relates the documents before  *)
(* a call (unprimed) to those after it (primed).                           *)
(***************************************************************************)
Documents == <<state, info, effects, palettes>>

\* C1: a pull_state() in which any one of the four fetches fails raises and
\* leaves StateDocument, InfoDocument, the effects list and the palettes list
\* as they were before the call.
C1_FailedPullLeavesDocuments ==
    [][(op'.name = "pull_state" /\ op'.raised # "none")
          => Documents' = Documents]_vars

\* C2: push_state(get_resp=False) posts the StateDocument as it is and leaves
\* it as it was, whatever the device replies; push_state(get_resp=True) posts
\* the StateDocument with the flag "v" added and, when it completes, the
\* StateDocument is the parsed response.
C2_PushSendsAndReplaces ==
    [][op'.name = "push_state" =>
          IF op'.get_resp
          THEN /\ posted' = update(state, "v", JBool(TRUE))
               /\ op'.raised = "none" => state' = op'.reply.body
          ELSE /\ posted' = state
               /\ state' = state]_vars

C2_Witness ==
    /\ op.name = "push_state"
    /\ op.get_resp
    /\ op.raised = "none"
    /\ "v" \in DOMAIN posted
    /\ "nl" \in DOMAIN posted
    /\ state = StateB

\* C3: a push_state() that fails (the POST fails, or the response of a
\* get_resp=True push does not parse) leaves the StateDocument as it was
\* before the call: no flag "v" stays behind.
C3_FailedPushLeavesState ==
    [][(op'.name = "push_state" /\ op'.raised # "none") => state' = state]_vars

\* C4: when the InfoDocument gives leds.maxseg, indexing the segment list with
\* item raises nothing, and returns a SegmentItem iff 0 <= item < maxseg and
\* None for every other item.
C4_IndexingChecksBothEnds ==
    (op.name = "segment.__getitem__" /\ "leds" \in DOMAIN info) =>
        /\ op.raised = "none"
        /\ (ret # None) <=>
              (0 <= op.item /\ op.item < info["leds"].o["maxseg"].n)

\* C5: in every reachable state, loaded is true iff StateDocument,
\* InfoDocument, the effects list and the palettes list are all non-empty, and
\* that is what a read of it returns (false right after a construction in
\* which one endpoint served an empty document).
AllNonEmpty ==
    /\ state # EmptyDoc
    /\ info # EmptyDoc
    /\ effects # <<>>
    /\ palettes # <<>>

C5_LoadedIffAllNonEmpty ==
    /\ loaded <=> AllNonEmpty
    /\ op.name = "loaded" => ret = JBool(AllNonEmpty)

C5_Witness ==
    /\ op.name = "loaded"
    /\ steps = 1
    /\ ret = JBool(FALSE)
    /\ state # EmptyDoc /\ info # EmptyDoc /\ effects # <<>>
    /\ palettes = <<>>

\* C6: on a StateDocument with an "nl" object, the nightlight mode setter
\* stores 0, 1, 2, 3 for the names instant, fade, color fade, sunrise; given
\* an integer n it stores n iff 0 <= n <= 3; in every other case it raises
\* ValueError and the StateDocument is as before.
ModeOfName ==
    [n \in {"instant", "fade", "color fade", "sunrise"} |->
        CASE n = "instant" -> 0
          [] n = "fade" -> 1
          [] n = "color fade" -> 2
          [] n = "sunrise" -> 3]

ModeStored(value) ==
    IF value.t = "str" /\ value.s \in DOMAIN ModeOfName
    THEN {ModeOfName[value.s]}
    ELSE IF value.t = "int" /\ 0 <= value.n /\ value.n <= 3 THEN {value.n}
    ELSE {}

C6_ModeSetter ==
    [][(op'.name = "nightlight.mode" /\ "nl" \in DOMAIN state) =>
          IF ModeStored(op'.input) # {}
          THEN /\ op'.raised = "none"
               /\ ModeStored(op'.input) = {state'["nl"].o["mode"].n}
          ELSE /\ op'.raised = "ValueError"
               /\ state' = state]_vars

C6_Witness ==
    /\ op.name = "nightlight.mode"
    /\ op.input = JStr("color fade")
    /\ op.raised = "none"
    /\ state["nl"].o["mode"] = JInt(2)

\* C7: _verify_int8bit(v) returns v iff 1 <= v <= 255 and raises ValueError
\* for every other integer v; the setters brightness, transition,
\* nightlight.duration_minutes and nightlight.target_brightness, given an
\* integer (the nightlight ones on a StateDocument with an "nl" object), store
\* it iff 1 <= v <= 255 and raise ValueError otherwise.
ByteProbe == -2 .. 258

ByteSetters ==
    {"brightness", "transition", "nightlight.duration_minutes",
     "nightlight.target_brightness"}

\* the field a setter writes, in the document doc
FieldOf(doc, o) ==
    IF o.key = None THEN doc[o.top] ELSE doc[o.top].o[o.key.s]

C7_ByteRange ==
    /\ \A v \in ByteProbe :
          _verify_int8bit(JInt(v)) =
              IF 1 <= v /\ v <= 255
              THEN [raised |-> "none", val |-> JInt(v)]
              ELSE [raised |-> "ValueError"]
    /\ (/\ op.name \in ByteSetters
        /\ op.input.t = "int"
        /\ op.key # None => op.top \in DOMAIN state) =>
            IF 1 <= op.input.n /\ op.input.n <= 255
            THEN op.raised = "none" /\ FieldOf(state, op) = JInt(op.input.n)
            ELSE op.raised = "ValueError"

C7_Witness ==
    /\ op.name = "nightlight.target_brightness"
    /\ op.input = JInt(255)
    /\ op.raised = "none"
    /\ state["nl"].o["tbri"] = JInt(255)

\* C8: save_state_file(n) leaves the StateDocument as it is; a
\* load_state_file(n) of a file written by save_state_file(n), with no write
\* to it in between, makes the StateDocument equal to the one saved; a load
\* replaces the StateDocument by the document of the file (police.json, kept
\* from an earlier session, holds PoliceDoc), nothing else staying in it.
C8_SaveLoadRoundTrip ==
    [][/\ op'.name = "save_state_file" => state' = state
       /\ (op'.name = "load_state_file" /\ op'.raised = "none") =>
             IF saved[op'.file_name] # NoSave
             THEN state' = saved[op'.file_name]
             ELSE state' = PoliceDoc]_vars

C8_Witness ==
    /\ op.name = "load_state_file"
    /\ op.raised = "none"
    /\ saved[op.file_name] = StateA
    /\ state = StateA

\* C9: reboot_wled() posts exactly {"rb": true}, leaves the StateDocument
\* equal to {"rb": true}, and leaves the InfoDocument, the effects list and
\* the palettes list as they were.
RebootRequest == [rb |-> JBool(TRUE)]

C9_Reboot ==
    [][op'.name = "reboot_wled" =>
          /\ posted' = RebootRequest
          /\ state' = RebootRequest
          /\ <<info, effects, palettes>>' = <<info, effects, palettes>>]_vars

C9_Witness ==
    /\ op.name = "reboot_wled"
    /\ op.raised = "none"
    /\ posted = RebootRequest
    /\ state = RebootRequest
    /\ info # EmptyDoc

\* C10: a typed setter that raises (its validation, or the write, fails)
\* leaves the StateDocument as it was; one that returns has changed at most
\* its own field: state[top] for on / brightness / transition,
\* state["nl"][key] for the nightlight setters, state["seg"]["dur"] for the
\* segment list's duration_minutes and the slot state["seg"][seg_id] for a
\* segment's start; every other field is as before.
SetterNames ==
    {"on", "brightness", "transition", "nightlight.on",
     "nightlight.duration_minutes", "nightlight.mode",
     "nightlight.target_brightness", "segment.duration_minutes",
     "segment[].start"}

OthersSame(f, g, k) ==
    /\ DOMAIN g = DOMAIN f \cup {k}
    /\ \A x \in DOMAIN f \ {k} : g[x] = f[x]

OwnFieldOnly(s, s2, o) ==
    /\ OthersSame(s, s2, o.top)
    /\ o.key # None =>
          /\ o.top \in DOMAIN s
          /\ s2[o.top].t = s[o.top].t
          /\ IF o.key.t = "str"
             THEN OthersSame(s[o.top].o, s2[o.top].o, o.key.s)
             ELSE /\ Len(s2[o.top].l) = Len(s[o.top].l)
                  /\ \A i \in 1..Len(s[o.top].l) :
                        i # ListPos(s[o.top].l, o.key.n)
                            => s2[o.top].l[i] = s[o.top].l[i]

C10_SetterFrame ==
    [][op'.name \in SetterNames =>
          IF op'.raised # "none"
          THEN state' = state
          ELSE OwnFieldOnly(state, state', op')]_vars

C10_Witness ==
    /\ op.name = "segment[].start"
    /\ op.key = JInt(1)
    /\ op.raised = "none"
    /\ state["seg"].l = <<Segment(0, 30), JInt(255)>>
====
